---- MODULE Spec2Model ----
(***************************************************************************)
(* Model of the Texas Hold'em hand evaluator of src/src/hand_eval.py and   *)
(* of the card value type of src/src/card.py.                              *)
(*                                                                         *)
(* A card is a record [rank, suit] (Card.__init__).  Python values are     *)
(* modelled as follows:                                                    *)
(*   - a function that returns a value or None returns a record            *)
(*     [kind |-> "some", val |-> v] or [kind |-> "none", val |-> <<>>];    *)
(*     when the Python call raises, the record has kind "raise";           *)
(*   - holdem_eval returns [kind, cat, tb, exc]: kind "return" with the    *)
(*     category number and the tiebreak, or kind "raise" with the          *)
(*     exception message.  A tiebreak that is a Python int (royal flush,   *)
(*     straight flush, flush, straight) is the 1-tuple <<n>>.              *)
(***************************************************************************)
EXTENDS Integers, Sequences, FiniteSets

VARIABLES hole_cards, board_cards, result,
          hole_cards2, board_cards2, result2,
          rank_mask, in_mask_top, inline_top,
          flush_score, swaps, pc

vars == <<hole_cards, board_cards, result, hole_cards2, board_cards2, result2,
          rank_mask, in_mask_top, inline_top, flush_score, swaps, pc>>

(***************************************************************************)
(* HoldemHandType                                                          *)
(***************************************************************************)
HIGH_CARD == 0
PAIR == 1
TWO_PAIR == 2
THREE_OF_A_KIND == 3
STRAIGHT == 4
FLUSH == 5
FULL_HOUSE == 6
FOUR_OF_A_KIND == 7
STRAIGHT_FLUSH == 8
ROYAL_FLUSH == 9

HoldemHandType == HIGH_CARD..ROYAL_FLUSH

(***************************************************************************)
(* Python values                                                           *)
(***************************************************************************)
Some(v) == [kind |-> "some", val |-> v]
None == [kind |-> "none", val |-> <<>>]
Raised == [kind |-> "raise", val |-> <<>>]

Return(cat, tb) == [kind |-> "return", cat |-> cat, tb |-> tb, exc |-> ""]
Raise(msg) == [kind |-> "raise", cat |-> -1, tb |-> <<>>, exc |-> msg]

ArityError == Raise("Invalid board or card input.")
ShiftError == Raise("negative shift count")
NotCalled == [kind |-> "not called", cat |-> -1, tb |-> <<>>, exc |-> ""]
NotRun == [kind |-> "not called", val |-> <<>>]

(***************************************************************************)
(* Integer bit operations: x << n, a & b, a | b on non-negative ints.      *)
(***************************************************************************)
Shl(x, n) == x * (2 ^ n)

RECURSIVE BitAnd(_, _)
BitAnd(a, b) ==
    IF a = 0 \/ b = 0 THEN 0
    ELSE (a % 2) * (b % 2) + 2 * BitAnd(a \div 2, b \div 2)

RECURSIVE BitOr(_, _)
BitOr(a, b) ==
    IF a = 0 THEN b
    ELSE IF b = 0 THEN a
    ELSE (IF a % 2 = 1 \/ b % 2 = 1 THEN 1 ELSE 0) + 2 * BitOr(a \div 2, b \div 2)

(***************************************************************************)
(* card.py                                                                 *)
(***************************************************************************)
Card(rank, suit) == [rank |-> rank, suit |-> suit]

\* Card.rank_mask
card_rank_mask(c) == Shl(1, c.rank - 2)

(***************************************************************************)
(* Sequence helpers: sorted(..., reverse=True) and per-field updates.      *)
(***************************************************************************)
RECURSIVE InsertDesc(_, _)
InsertDesc(s, x) ==
    IF s = <<>> THEN <<x>>
    ELSE IF x >= Head(s) THEN <<x>> \o s
    ELSE <<Head(s)>> \o InsertDesc(Tail(s), x)

RECURSIVE SortDesc(_)
SortDesc(s) == IF s = <<>> THEN <<>> ELSE InsertDesc(SortDesc(Tail(s)), Head(s))

FirstN(s, n) == SubSeq(s, 1, IF Len(s) < n THEN Len(s) ELSE n)

\* suits_bitmask: one entry per suit, for all_cards[1..n]
RECURSIVE SuitMasks(_, _)
SuitMasks(all_cards, n) ==
    IF n = 0 THEN <<0, 0, 0, 0>>
    ELSE LET m == SuitMasks(all_cards, n - 1)
             c == all_cards[n]
         IN  [m EXCEPT ![c.suit] = BitOr(m[c.suit], card_rank_mask(c))]

\* rank_count = [0]*13, indexed 0..12, after counting all_cards[1..n]
RECURSIVE RankCount(_, _)
RankCount(all_cards, n) ==
    IF n = 0 THEN [i \in 0..12 |-> 0]
    ELSE LET rc == RankCount(all_cards, n - 1)
             c == all_cards[n]
         IN  [rc EXCEPT ![c.rank - 2] = rc[c.rank - 2] + 1]

\* the indices i of i, i-1, ..., 0 (reversed(range(13)) from 12) with
\* rank_count[i] >= least, highest first
RECURSIVE DescIndices(_, _, _)
DescIndices(rank_count, least, i) ==
    IF i < 0 THEN <<>>
    ELSE (IF rank_count[i] >= least THEN <<i>> ELSE <<>>)
         \o DescIndices(rank_count, least, i - 1)

(***************************************************************************)
(* is_royal_flush                                                          *)
(***************************************************************************)
ROYAL_MASK == BitOr(BitOr(BitOr(BitOr(Shl(1, 10 - 2), Shl(1, 11 - 2)),
                    Shl(1, 12 - 2)), Shl(1, 13 - 2)), Shl(1, 14 - 2))

RECURSIVE FirstRoyalSuit(_, _)
FirstRoyalSuit(suits_bitmask, i) ==
    IF i > 3 THEN None
    ELSE IF BitAnd(suits_bitmask[i + 1], ROYAL_MASK) = ROYAL_MASK THEN Some(i + 1)
    ELSE FirstRoyalSuit(suits_bitmask, i + 1)

is_royal_flush(cards, board) ==
    LET all_cards == cards \o board
    IN  FirstRoyalSuit(SuitMasks(all_cards, Len(all_cards)), 0)

(***************************************************************************)
(* _get_best_straight_in_mask                                              *)
(***************************************************************************)
\* has_rank(r): 1 << (r - 2) raises ValueError when r - 2 < 0
has_rank_raises(r) == r - 2 < 0
has_rank(mask, r) == BitAnd(mask, Shl(1, r - 2)) # 0

\* all(has_rank(r) for r in rs), left to right, stopping at the first False
RECURSIVE all_has_rank(_, _, _)
all_has_rank(mask, rs, i) ==
    IF i > Len(rs) THEN "True"
    ELSE IF has_rank_raises(rs[i]) THEN "raise"
    ELSE IF ~has_rank(mask, rs[i]) THEN "False"
    ELSE all_has_rank(mask, rs, i + 1)

\* [high_card - off for off in range(5)]
RunBelow(high_card) == [off1 \in 1..5 |-> high_card - (off1 - 1)]

RECURSIVE straight_in_mask_from(_, _)
straight_in_mask_from(mask, high_card) ==
    IF high_card <= 4
    THEN (IF all_has_rank(mask, <<14, 2, 3, 4, 5>>, 1) = "True" THEN Some(5) ELSE None)
    ELSE LET a == all_has_rank(mask, RunBelow(high_card), 1)
         IN  IF a = "raise" THEN Raised
             ELSE IF a = "True" THEN Some(high_card)
             ELSE straight_in_mask_from(mask, high_card - 1)

_get_best_straight_in_mask(mask) == straight_in_mask_from(mask, 14)

(***************************************************************************)
(* get_straight_flush_suit_and_rank                                        *)
(***************************************************************************)
\* the loop over enumerate(suits_bitmask), from suit_index on, with the
\* best (suit, top rank) so far; suit 0 stands for best_suit = None
RECURSIVE straight_flush_loop(_, _, _, _)
straight_flush_loop(suits_bitmask, suit_index, best_suit, best_top_rank) ==
    IF suit_index > 3
    THEN (IF best_suit # 0 THEN Some(<<best_suit, best_top_rank>>) ELSE None)
    ELSE LET top_rank == _get_best_straight_in_mask(suits_bitmask[suit_index + 1])
         IN  IF top_rank.kind = "raise" THEN Raised
             ELSE IF top_rank.kind = "some" /\ top_rank.val > best_top_rank
             THEN straight_flush_loop(suits_bitmask, suit_index + 1,
                                      suit_index + 1, top_rank.val)
             ELSE straight_flush_loop(suits_bitmask, suit_index + 1,
                                      best_suit, best_top_rank)

get_straight_flush_suit_and_rank(hole, board) ==
    LET all_cards == hole \o board
    IN  straight_flush_loop(SuitMasks(all_cards, Len(all_cards)), 0, 0, 0)

(***************************************************************************)
(* four_of_a_kind_and_kicker                                               *)
(***************************************************************************)
\* first i of enumerate(rank_count), from i on, with count >= 4; -1: none
RECURSIVE FirstQuadIndex(_, _)
FirstQuadIndex(rank_count, i) ==
    IF i > 12 THEN -1
    ELSE IF rank_count[i] >= 4 THEN i
    ELSE FirstQuadIndex(rank_count, i + 1)

\* highest i of reversed(range(13)), from i down, with i+2 # quad_rank and a
\* card held; 0 stands for kicker = None (no other rank held)
RECURSIVE BestKicker(_, _, _)
BestKicker(rank_count, quad_rank, i) ==
    IF i < 0 THEN 0
    ELSE IF i + 2 # quad_rank /\ rank_count[i] > 0 THEN i + 2
    ELSE BestKicker(rank_count, quad_rank, i - 1)

four_of_a_kind_and_kicker(hole, board) ==
    LET all_cards == hole \o board
        rank_count == RankCount(all_cards, Len(all_cards))
        qi == FirstQuadIndex(rank_count, 0)
    IN  IF qi = -1 THEN None
        ELSE Some(<<qi + 2, BestKicker(rank_count, qi + 2, 12)>>)

(***************************************************************************)
(* get_best_full_house                                                     *)
(***************************************************************************)
\* for p_i in pair_candidates[j..]: if p_i != t_i: return p_i; -1: none
RECURSIVE FirstOtherPair(_, _, _)
FirstOtherPair(pair_candidates, t_i, j) ==
    IF j > Len(pair_candidates) THEN -1
    ELSE IF pair_candidates[j] # t_i THEN pair_candidates[j]
    ELSE FirstOtherPair(pair_candidates, t_i, j + 1)

\* full_house_pair over pair candidates left in ascending order
full_house_pair_lowest(pair_candidates, t_i) ==
    FirstOtherPair([j \in 1..Len(pair_candidates) |->
                        pair_candidates[Len(pair_candidates) + 1 - j]], t_i, 1)

\* the inner comparison p_i != t_i of the nested loop
full_house_pair(pair_candidates, t_i) == FirstOtherPair(pair_candidates, t_i, 1)

\* for t_i in triple_candidates[k..]: for p_i in pair_candidates: ...
RECURSIVE full_house_loop(_, _, _)
full_house_loop(triple_candidates, pair_candidates, k) ==
    IF k > Len(triple_candidates) THEN None
    ELSE LET t_i == triple_candidates[k]
             p_i == full_house_pair(pair_candidates, t_i)
         IN  IF p_i # -1 THEN Some(<<t_i + 2, p_i + 2>>)
             ELSE full_house_loop(triple_candidates, pair_candidates, k + 1)

get_best_full_house(hole, board) ==
    LET all_cards == hole \o board
        rank_count == RankCount(all_cards, Len(all_cards))
        triple_candidates == DescIndices(rank_count, 3, 12)
        pair_candidates == DescIndices(rank_count, 2, 12)
    IN  full_house_loop(triple_candidates, pair_candidates, 1)

(***************************************************************************)
(* get_flush_score_fast                                                    *)
(***************************************************************************)
\* suit_buckets[suit - 1]: the ranks of the suit, in input order
SuitBucket(all_cards, suit) ==
    LET of_suit == SelectSeq(all_cards, LAMBDA c : c.suit = suit)
    IN  [i \in 1..Len(of_suit) |-> of_suit[i].rank]

\* heapq.nlargest(5, ranks)
nlargest5(ranks) == FirstN(SortDesc(ranks), 5)

\* pack_score with a shift of 3 bits for 4
RECURSIVE pack_score3(_, _, _)
pack_score3(rs, i, score) ==
    IF i > Len(rs) THEN score
    ELSE pack_score3(rs, i + 1, BitOr(Shl(score, 3), rs[i]))

\* for r in rs[i..]: score = (score << 4) | r
RECURSIVE pack_score(_, _, _)
pack_score(rs, i, score) ==
    IF i > Len(rs) THEN score
    ELSE pack_score(rs, i + 1, BitOr(Shl(score, 4), rs[i]))

bucket_score(ranks) == pack_score(SortDesc(nlargest5(ranks)), 1, 0)

\* for ranks in suit_buckets[suit..]: ... if score > best_score
RECURSIVE flush_loop(_, _, _)
flush_loop(all_cards, suit, best_score) ==
    IF suit > 4 THEN best_score
    ELSE LET ranks == SuitBucket(all_cards, suit)
         IN  IF Len(ranks) >= 5 /\ bucket_score(ranks) > best_score
             THEN flush_loop(all_cards, suit + 1, bucket_score(ranks))
             ELSE flush_loop(all_cards, suit + 1, best_score)

get_flush_score_fast(hole, board) ==
    LET best_score == flush_loop(hole \o board, 1, 0)
    IN  IF best_score > 0 THEN Some(best_score) ELSE None

(***************************************************************************)
(* get_best_straight_rank                                                  *)
(***************************************************************************)
RECURSIVE UnionMask(_, _)
UnionMask(all_cards, n) ==
    IF n = 0 THEN 0
    ELSE BitOr(UnionMask(all_cards, n - 1), Shl(1, all_cards[n].rank - 2))

\* the inline has_rank and the two loops of get_best_straight_rank
inline_has_rank_raises(r) == r - 2 < 0
inline_has_rank(mask, r) == BitAnd(mask, Shl(1, r - 2)) # 0

RECURSIVE inline_all_has_rank(_, _, _)
inline_all_has_rank(mask, rs, i) ==
    IF i > Len(rs) THEN "True"
    ELSE IF inline_has_rank_raises(rs[i]) THEN "raise"
    ELSE IF ~inline_has_rank(mask, rs[i]) THEN "False"
    ELSE inline_all_has_rank(mask, rs, i + 1)

RECURSIVE inline_straight_from(_, _)
inline_straight_from(mask, high_card) ==
    IF high_card <= 4
    THEN (IF inline_all_has_rank(mask, <<14, 2, 3, 4, 5>>, 1) = "True"
          THEN Some(5) ELSE None)
    ELSE LET a == inline_all_has_rank(mask, RunBelow(high_card), 1)
         IN  IF a = "raise" THEN Raised
             ELSE IF a = "True" THEN Some(high_card)
             ELSE inline_straight_from(mask, high_card - 1)

best_straight_of_mask(mask) == inline_straight_from(mask, 14)

get_best_straight_rank(hole, board) ==
    LET all_cards == hole \o board
    IN  best_straight_of_mask(UnionMask(all_cards, Len(all_cards)))

(***************************************************************************)
(* Lower hands: three of a kind, two pair, pair, high card                 *)
(***************************************************************************)
\* leftover: for i in reversed(range(13)), i from 12 down: rank i+2 once per
\* card counted in rank_count
RECURSIVE Leftover(_, _)
Leftover(rank_count, i) ==
    IF i < 0 THEN <<>>
    ELSE [k \in 1..rank_count[i] |-> i + 2] \o Leftover(rank_count, i - 1)

\* leftover[n] if len(leftover) > n else 0 (n counts from 0)
KickerAt(leftover, n) == IF Len(leftover) > n THEN leftover[n + 1] ELSE 0

get_three_of_a_kind_tiebreak(hole, board) ==
    LET all_cards == hole \o board
        rank_count == RankCount(all_cards, Len(all_cards))
        trips == DescIndices(rank_count, 3, 12)
    IN  IF trips = <<>> THEN None
        ELSE LET trip == trips[1] + 2
                 removed == [rank_count EXCEPT ![trip - 2] = @ - 3]
                 leftover == SortDesc(Leftover(removed, 12))
             IN  Some(<<trip, KickerAt(leftover, 0), KickerAt(leftover, 1)>>)

\* two_pair_kicker that takes only a rank held once (rank_count[i] == 1)
two_pair_kicker_single(rank_count) ==
    LET once == SelectSeq(DescIndices(rank_count, 1, 12), LAMBDA i : rank_count[i] = 1)
    IN  IF once = <<>> THEN 0 ELSE once[1] + 2

\* kicker = 0; for i in reversed(range(13)): if rank_count[i] > 0: kicker = i+2
two_pair_kicker(rank_count) ==
    LET held == DescIndices(rank_count, 1, 12)
    IN  IF held = <<>> THEN 0 ELSE held[1] + 2

get_two_pair_tiebreak(hole, board) ==
    LET all_cards == hole \o board
        rank_count == RankCount(all_cards, Len(all_cards))
        pairs == DescIndices(rank_count, 2, 12)
    IN  IF Len(pairs) < 2 THEN None
        ELSE LET top_pair == pairs[1] + 2
                 second_pair == pairs[2] + 2
                 removed == [rank_count EXCEPT ![top_pair - 2] = @ - 2,
                                               ![second_pair - 2] = @ - 2]
             IN  Some(<<top_pair, second_pair, two_pair_kicker(removed)>>)

get_one_pair_tiebreak(hole, board) ==
    LET all_cards == hole \o board
        rank_count == RankCount(all_cards, Len(all_cards))
        pairs == DescIndices(rank_count, 2, 12)
    IN  IF pairs = <<>> THEN None
        ELSE LET pair_rank == pairs[1] + 2
                 removed == [rank_count EXCEPT ![pair_rank - 2] = @ - 2]
                 leftover == Leftover(removed, 12)
             IN  Some(<<pair_rank, KickerAt(leftover, 0), KickerAt(leftover, 1),
                        KickerAt(leftover, 2)>>)

\* top5 padded with 0 while len(top5) < 5
RECURSIVE PadTo5(_)
PadTo5(top5) == IF Len(top5) >= 5 THEN top5 ELSE PadTo5(Append(top5, 0))

\* sorted_ranks without the sort
sorted_ranks_unsorted(all_cards) == [i \in 1..Len(all_cards) |-> all_cards[i].rank]

\* sorted([c.rank for c in all_cards], reverse=True)
sorted_ranks(all_cards) == SortDesc([i \in 1..Len(all_cards) |-> all_cards[i].rank])

get_high_card_tiebreak(hole, board) ==
    LET ranks == sorted_ranks(hole \o board)
    IN  PadTo5(FirstN(ranks, 5))

(***************************************************************************)
(* holdem_eval                                                             *)
(***************************************************************************)
\* arity_violation with "and" for "or"
arity_violation_and(card, board) == Len(board) # 5 /\ Len(card) # 2

\* if len(board) != 5 or len(card) != 2
arity_violation(card, board) == Len(board) # 5 \/ Len(card) # 2

\* the detectors, strongest first, of a call that passed the arity check
detect(card, board) ==
    LET royal == is_royal_flush(card, board)
        sf == get_straight_flush_suit_and_rank(card, board)
        foak == four_of_a_kind_and_kicker(card, board)
        fh == get_best_full_house(card, board)
        fl == get_flush_score_fast(card, board)
        straight_rank == get_best_straight_rank(card, board)
        three_tiebreak == get_three_of_a_kind_tiebreak(card, board)
        two_pair_tiebreak == get_two_pair_tiebreak(card, board)
        one_pair_tiebreak == get_one_pair_tiebreak(card, board)
    IN  IF royal.kind = "some" THEN Return(ROYAL_FLUSH, <<royal.val>>)
        ELSE IF sf.kind = "raise" THEN ShiftError
        ELSE IF sf.kind = "some" THEN Return(STRAIGHT_FLUSH, <<sf.val[2]>>)
        ELSE IF foak.kind = "some" THEN Return(FOUR_OF_A_KIND, foak.val)
        ELSE IF fh.kind = "some" THEN Return(FULL_HOUSE, fh.val)
        ELSE IF fl.kind = "some" THEN Return(FLUSH, <<fl.val>>)
        ELSE IF straight_rank.kind = "raise" THEN ShiftError
        ELSE IF straight_rank.kind = "some" THEN Return(STRAIGHT, <<straight_rank.val>>)
        ELSE IF three_tiebreak.kind = "some"
             THEN Return(THREE_OF_A_KIND, three_tiebreak.val)
        ELSE IF two_pair_tiebreak.kind = "some" THEN Return(TWO_PAIR, two_pair_tiebreak.val)
        ELSE IF one_pair_tiebreak.kind = "some" THEN Return(PAIR, one_pair_tiebreak.val)
        ELSE Return(HIGH_CARD, get_high_card_tiebreak(card, board))

holdem_eval(card, board) ==
    IF arity_violation(card, board) THEN ArityError ELSE detect(card, board)

(***************************************************************************)
(* Inputs.  The callers pass lists of distinct cards of one 52-card deck.  *)
(* A deal takes its cards from the first cards of a fixed order of the     *)
(* deck; the number of cards taken bounds the model.                       *)
(***************************************************************************)
DeckSize == 17

DeckOrder ==
    << Card(14, 1), Card(13, 1), Card(12, 1), Card(11, 1), Card(10, 1), Card(5, 1),
       Card(4, 1), Card(3, 1), Card(2, 1), Card(14, 2), Card(13, 2), Card(2, 2),
       Card(14, 3), Card(13, 3), Card(2, 3), Card(6, 3), Card(14, 4), Card(13, 4),
       Card(5, 2), Card(4, 2), Card(3, 2), Card(9, 1), Card(8, 1), Card(7, 1),
       Card(6, 1), Card(12, 2), Card(11, 2), Card(10, 2), Card(9, 2), Card(8, 2),
       Card(7, 2), Card(6, 2), Card(12, 3), Card(11, 3), Card(10, 3), Card(9, 3),
       Card(8, 3), Card(7, 3), Card(5, 3), Card(4, 3), Card(3, 3), Card(12, 4),
       Card(11, 4), Card(10, 4), Card(9, 4), Card(8, 4), Card(7, 4), Card(6, 4),
       Card(5, 4), Card(4, 4), Card(3, 4), Card(2, 4) >>

\* the cards DeckOrder[i], i \in S, as a list in the order of the deck
Dealt(order, S) ==
    LET idx == SelectSeq([i \in 1..Len(order) |-> i], LAMBDA i : i \in S)
    IN  [k \in 1..Len(idx) |-> order[idx[k]]]

\* the 7-card deals from the first n cards of a deck order
Hands(n) == {S \in SUBSET (1..n) : Cardinality(S) = 7}

Idle ==
    /\ hole_cards2 = <<>> /\ board_cards2 = <<>> /\ result2 = NotCalled
    /\ rank_mask = 0 /\ in_mask_top = NotRun /\ inline_top = NotRun
    /\ flush_score = NotRun /\ swaps = 0

(***************************************************************************)
(* Spec: one call of holdem_eval on 2 hole cards and 5 board cards.        *)
(***************************************************************************)
Init ==
    /\ \E S \in Hands(DeckSize) :
          LET cs == Dealt(DeckOrder, S)
          IN  hole_cards = SubSeq(cs, 1, 2) /\ board_cards = SubSeq(cs, 3, 7)
    /\ result = NotCalled
    /\ pc = "call"
    /\ Idle

HoldemEval ==
    /\ pc = "call"
    /\ result' = holdem_eval(hole_cards, board_cards)
    /\ pc' = "done"
    /\ UNCHANGED <<hole_cards, board_cards, hole_cards2, board_cards2, result2,
                   rank_mask, in_mask_top, inline_top, flush_score, swaps>>

Next == HoldemEval

Spec == Init /\ [][Next]_vars

(***************************************************************************)
(* SpecArity: one call of holdem_eval on lists of any length.              *)
(***************************************************************************)
ArityDeckSize == 9

InitArity ==
    /\ \E S \in SUBSET (1..ArityDeckSize) :
          LET cs == Dealt(DeckOrder, S)
          IN  \E k \in 0..Len(cs) :
                 hole_cards = SubSeq(cs, 1, k) /\ board_cards = SubSeq(cs, k + 1, Len(cs))
    /\ result = NotCalled
    /\ pc = "call"
    /\ Idle

SpecArity == InitArity /\ [][Next]_vars

(***************************************************************************)
(* SpecOrder: a call of holdem_eval, then calls on the same 7 cards in     *)
(* another order and with another split into hole and board.               *)
(***************************************************************************)
OrderDeckSize == 10
MaxSwaps == 2

OrderDeck ==
    << Card(14, 1), Card(13, 2), Card(12, 3), Card(9, 4), Card(5, 1), Card(4, 2),
       Card(2, 3), Card(3, 4), Card(14, 2), Card(13, 3), Card(9, 1), Card(7, 4) >>

InitOrder ==
    /\ \E S \in Hands(OrderDeckSize) :
          LET cs == Dealt(OrderDeck, S)
          IN  hole_cards = SubSeq(cs, 1, 2) /\ board_cards = SubSeq(cs, 3, 7)
    /\ hole_cards2 = <<>> /\ board_cards2 = <<>>
    /\ result = NotCalled /\ result2 = NotCalled
    /\ pc = "call"
    /\ rank_mask = 0 /\ in_mask_top = NotRun /\ inline_top = NotRun
    /\ flush_score = NotRun /\ swaps = 0

\* the first call; the caller keeps the 7 cards for a second call
FirstEval ==
    /\ pc = "call"
    /\ result' = holdem_eval(hole_cards, board_cards)
    /\ hole_cards2' = hole_cards /\ board_cards2' = board_cards
    /\ pc' = "reorder"
    /\ UNCHANGED <<hole_cards, board_cards, result2,
                   rank_mask, in_mask_top, inline_top, flush_score, swaps>>

\* the caller exchanges the cards at places i and i+1 of the 7 (places 1, 2
\* are the hole cards, 3..7 the board)
SwapCards(i) ==
    /\ pc = "reorder"
    /\ swaps < MaxSwaps
    /\ LET cs == hole_cards2 \o board_cards2
           sw == [cs EXCEPT ![i] = cs[i + 1], ![i + 1] = cs[i]]
       IN  hole_cards2' = SubSeq(sw, 1, 2) /\ board_cards2' = SubSeq(sw, 3, 7)
    /\ swaps' = swaps + 1
    /\ UNCHANGED <<hole_cards, board_cards, result, result2,
                   rank_mask, in_mask_top, inline_top, flush_score, pc>>

SecondEval ==
    /\ pc = "reorder"
    /\ result2' = holdem_eval(hole_cards2, board_cards2)
    /\ pc' = "done"
    /\ UNCHANGED <<hole_cards, board_cards, result, hole_cards2, board_cards2,
                   rank_mask, in_mask_top, inline_top, flush_score, swaps>>

NextOrder == FirstEval \/ (\E i \in 1..6 : SwapCards(i)) \/ SecondEval

SpecOrder == InitOrder /\ [][NextOrder]_vars

(***************************************************************************)
(* SpecPair: two 7-card holdings, of two tables, evaluated for comparison. *)
(***************************************************************************)
PairDeckSize == 9

TableA ==
    << Card(14, 1), Card(13, 1), Card(12, 1), Card(11, 1), Card(10, 1), Card(2, 2),
       Card(3, 2), Card(4, 2), Card(5, 3), Card(9, 4), Card(8, 4) >>

TableB ==
    << Card(14, 2), Card(13, 2), Card(12, 2), Card(11, 2), Card(10, 2), Card(2, 4),
       Card(3, 3), Card(7, 4), Card(9, 3), Card(8, 1), Card(6, 1) >>

InitPair ==
    /\ \E S \in Hands(PairDeckSize) :
          LET cs == Dealt(TableA, S)
          IN  hole_cards = SubSeq(cs, 1, 2) /\ board_cards = SubSeq(cs, 3, 7)
    /\ \E S \in Hands(PairDeckSize) :
          LET cs == Dealt(TableB, S)
          IN  hole_cards2 = SubSeq(cs, 1, 2) /\ board_cards2 = SubSeq(cs, 3, 7)
    /\ result = NotCalled /\ result2 = NotCalled
    /\ pc = "call"
    /\ rank_mask = 0 /\ in_mask_top = NotRun /\ inline_top = NotRun
    /\ flush_score = NotRun /\ swaps = 0

EvalBoth ==
    /\ pc = "call"
    /\ result' = holdem_eval(hole_cards, board_cards)
    /\ result2' = holdem_eval(hole_cards2, board_cards2)
    /\ pc' = "done"
    /\ UNCHANGED <<hole_cards, board_cards, hole_cards2, board_cards2,
                   rank_mask, in_mask_top, inline_top, flush_score, swaps>>

NextPair == EvalBoth

SpecPair == InitPair /\ [][NextPair]_vars

(***************************************************************************)
(* SpecMask: the two straight routines on a 13-bit rank mask.              *)
(***************************************************************************)
MaskBits == 13

InitMask ==
    /\ rank_mask \in 0..(2 ^ MaskBits - 1)
    /\ in_mask_top = NotRun /\ inline_top = NotRun
    /\ hole_cards = <<>> /\ board_cards = <<>> /\ result = NotCalled
    /\ hole_cards2 = <<>> /\ board_cards2 = <<>> /\ result2 = NotCalled
    /\ flush_score = NotRun /\ swaps = 0
    /\ pc = "call"

StraightInMask ==
    /\ in_mask_top = NotRun
    /\ in_mask_top' = _get_best_straight_in_mask(rank_mask)
    /\ UNCHANGED <<hole_cards, board_cards, result, hole_cards2, board_cards2, result2,
                   rank_mask, inline_top, flush_score, swaps, pc>>

StraightInline ==
    /\ inline_top = NotRun
    /\ inline_top' = best_straight_of_mask(rank_mask)
    /\ UNCHANGED <<hole_cards, board_cards, result, hole_cards2, board_cards2, result2,
                   rank_mask, in_mask_top, flush_score, swaps, pc>>

NextMask == StraightInMask \/ StraightInline

SpecMask == InitMask /\ [][NextMask]_vars

(***************************************************************************)
(* SpecFlush: one call of get_flush_score_fast.  The holdings are every    *)
(* five spades with two hearts, and the deals of a deck of spades and      *)
(* hearts (5, 6 or 7 cards of the suit, or no flush).                      *)
(***************************************************************************)
FlushDeckSize == 10

FlushDeck ==
    << Card(14, 2), Card(2, 2), Card(9, 2), Card(14, 1), Card(13, 1), Card(9, 1),
       Card(8, 1), Card(7, 1), Card(3, 1), Card(2, 1), Card(12, 1), Card(5, 1) >>

Spades == [i \in 1..13 |-> Card(15 - i, 1)]

InitFlush ==
    /\ \/ \E S \in Hands(FlushDeckSize) :
             LET cs == Dealt(FlushDeck, S)
             IN  hole_cards = SubSeq(cs, 1, 2) /\ board_cards = SubSeq(cs, 3, 7)
       \/ \E S \in {T \in SUBSET (1..13) : Cardinality(T) = 5} :
             /\ hole_cards = <<Card(14, 2), Card(2, 2)>>
             /\ board_cards = Dealt(Spades, S)
    /\ flush_score = NotRun
    /\ result = NotCalled
    /\ pc = "call"
    /\ hole_cards2 = <<>> /\ board_cards2 = <<>> /\ result2 = NotCalled
    /\ rank_mask = 0 /\ in_mask_top = NotRun /\ inline_top = NotRun
    /\ swaps = 0

FlushScore ==
    /\ pc = "call"
    /\ flush_score' = get_flush_score_fast(hole_cards, board_cards)
    /\ pc' = "done"
    /\ UNCHANGED <<hole_cards, board_cards, result, hole_cards2, board_cards2, result2,
                   rank_mask, in_mask_top, inline_top, swaps>>

NextFlush == FlushScore

SpecFlush == InitFlush /\ [][NextFlush]_vars

(***************************************************************************)
(* Standard poker ranking of five cards, and the best five of seven by     *)
(* enumeration of the 21 five-card subsets.                                *)
(***************************************************************************)
CardSet(cs) == {cs[i] : i \in 1..Len(cs)}

RanksOf(F) == {c.rank : c \in F}

CountOf(F, r) == Cardinality({c \in F : c.rank = r})

RECURSIVE DescOfSet(_)
DescOfSet(S) ==
    IF S = {} THEN <<>>
    ELSE LET m == CHOOSE x \in S : \A y \in S : y <= x
         IN  <<m>> \o DescOfSet(S \ {m})

RECURSIVE LexLess(_, _)
LexLess(s, t) ==
    IF s = <<>> \/ t = <<>> THEN FALSE
    ELSE IF Head(s) # Head(t) THEN Head(s) < Head(t)
    ELSE LexLess(Tail(s), Tail(t))

IsFlush5(F) == \E s \in 1..4 : \A c \in F : c.suit = s

\* top rank of the straight the five cards form (5 for the wheel), 0 if none
StraightTop5(F) ==
    LET rs == RanksOf(F)
        hi == CHOOSE x \in rs : \A y \in rs : y <= x
        lo == CHOOSE x \in rs : \A y \in rs : y >= x
    IN  IF Cardinality(rs) # 5 THEN 0
        ELSE IF hi - lo = 4 THEN hi
        ELSE IF rs = {14, 2, 3, 4, 5} THEN 5
        ELSE 0

Category5(F) ==
    LET counts == {CountOf(F, r) : r \in RanksOf(F)}
        npairs == Cardinality({r \in RanksOf(F) : CountOf(F, r) = 2})
    IN  IF IsFlush5(F) /\ StraightTop5(F) = 14 THEN ROYAL_FLUSH
        ELSE IF IsFlush5(F) /\ StraightTop5(F) # 0 THEN STRAIGHT_FLUSH
        ELSE IF 4 \in counts THEN FOUR_OF_A_KIND
        ELSE IF 3 \in counts /\ 2 \in counts THEN FULL_HOUSE
        ELSE IF IsFlush5(F) THEN FLUSH
        ELSE IF StraightTop5(F) # 0 THEN STRAIGHT
        ELSE IF 3 \in counts THEN THREE_OF_A_KIND
        ELSE IF npairs = 2 THEN TWO_PAIR
        ELSE IF npairs = 1 THEN PAIR
        ELSE HIGH_CARD

\* <<category, ranks in the order poker compares them>>: a straight by its top
\* rank, any other hand by its ranks, most frequent first, then highest first
Key5(F) ==
    IF StraightTop5(F) # 0 THEN <<Category5(F), StraightTop5(F)>>
    ELSE LET w == DescOfSet({CountOf(F, r) * 100 + r : r \in RanksOf(F)})
         IN  <<Category5(F)>> \o [i \in 1..Len(w) |-> w[i] % 100]

BestKey(cs) ==
    LET keys == {Key5(F) : F \in {G \in SUBSET CardSet(cs) : Cardinality(G) = 5}}
    IN  CHOOSE k \in keys : \A k2 \in keys : ~LexLess(k, k2)

BestCategory(cs) == BestKey(cs)[1]

\* the comparator on results: category first, then the tiebreak component by
\* component
ResultGreater(a, b) == a.cat > b.cat \/ (a.cat = b.cat /\ LexLess(b.tb, a.tb))

AllCards == hole_cards \o board_cards
AllCards2 == hole_cards2 \o board_cards2

(***************************************************************************)
(* Claims                                                                  *)
(***************************************************************************)

\* C1: on 2 hole cards and 5 board cards, 7 distinct cards, holdem_eval
\* returns one (category, tiebreak) with the category one of the ten
\* HoldemHandType values and never raises (Spec deals only such inputs).
C1_ValidHandClassified ==
    pc = "done" => result.kind = "return" /\ result.cat \in HoldemHandType

\* C2: on every valid 7-card input the category holdem_eval returns is the
\* strongest category over the 21 five-card subsets of the 7 cards.
C2_BestFiveOfSeven ==
    pc = "done" => result.kind = "return" /\ result.cat = BestCategory(AllCards)

HoldsRanks(cs, R) == R \subseteq RanksOf(CardSet(cs))

HoldsRunAbove5(cs) == \E h \in 6..14 : HoldsRanks(cs, (h - 4)..h)

\* C3: an input that holds A,2,3,4,5, no five consecutive ranks with top rank
\* 6 or more, and nothing stronger than a straight, gets (STRAIGHT, 5); and
\* every straight that is not the wheel gets a top rank of at least 6.
C3_WheelStraight ==
    pc = "done" =>
       /\ (/\ HoldsRanks(AllCards, {14, 2, 3, 4, 5})
           /\ ~HoldsRunAbove5(AllCards)
           /\ BestCategory(AllCards) <= STRAIGHT)
          => result = Return(STRAIGHT, <<5>>)
       /\ (/\ result.kind = "return"
           /\ result.cat = STRAIGHT
           /\ HoldsRunAbove5(AllCards))
          => result.tb[1] >= 6

\* C4: holdem_eval raises the arity error whenever the hole list has not
\* exactly 2 cards or the board list has not exactly 5 cards, also when the
\* two lists together hold 7 cards: the error is the arity check's (no
\* detector ran), and nothing is returned.
C4_ArityRejected ==
    pc = "done" /\ (Len(hole_cards) # 2 \/ Len(board_cards) # 5)
       => result = ArityError /\ result.kind # "return"

\* C4 witness: 3 hole cards and 4 board cards, 7 in all, are rejected.
C4_ThreePlusFourRejected ==
    /\ pc = "done"
    /\ Len(hole_cards) = 3 /\ Len(board_cards) = 4
    /\ result = ArityError

\* C5: if the best five cards of holding A strictly beat the best five of
\* holding B under poker rules, result(A) compares strictly greater than
\* result(B): category first, then the tiebreak component by component.
C5_StrongerHandComparesGreater ==
    pc = "done" /\ LexLess(BestKey(AllCards2), BestKey(AllCards))
       => /\ result.kind = "return"
          /\ result2.kind = "return"
          /\ ResultGreater(result, result2)

\* C6: two holdings whose best five cards tie under poker rules (same
\* category, same five ranks) get equal (category, tiebreak) pairs, in every
\* category, royal flush included.
C6_TiedHandsEqualResults ==
    pc = "done" /\ BestKey(AllCards) = BestKey(AllCards2)
       => /\ result.kind = "return"
          /\ result2.kind = "return"
          /\ result = result2

\* C7: the outcome of holdem_eval on 7 cards is the same for every order of
\* the cards and every split into 2 hole cards and 5 board cards: the second
\* call, on the reordered cards, gives what the first call gave.
C7_OrderAndSplitIndependent ==
    pc = "done" => result2 = result

\* C7 witness: a second call with other hole cards and another board order
\* returned the first call's high-card result.
C7_ResplitSameResult ==
    /\ pc = "done"
    /\ CardSet(hole_cards2) # CardSet(hole_cards)
    /\ board_cards2 # board_cards
    /\ result.kind = "return" /\ result.cat = HIGH_CARD
    /\ result2 = result

\* the strictly descending 5-rank sequences with ranks in 2..14
Desc5 ==
    {DescOfSet(T) : T \in {U \in SUBSET (2..14) : Cardinality(U) = 5}}

\* five ranks, 4 bits each, the first rank in the highest bits
Packed(t) == t[1] * 65536 + t[2] * 4096 + t[3] * 256 + t[4] * 16 + t[5]

SuitRanks(cs, suit) == {c.rank : c \in {d \in CardSet(cs) : d.suit = suit}}

\* C8: the flush score is the five highest ranks of the flush suit (also of
\* 6 or 7 cards of the suit), highest first, 4 bits per rank; and against
\* the packed score of every descending 5-rank sequence it compares as the
\* rank sequences compare lexicographically, with equal scores only for
\* equal sequences.  Without 5 cards of a suit there is no score.
C8_FlushScoreOrder ==
    pc = "done" =>
       IF \E suit \in 1..4 : Cardinality(SuitRanks(AllCards, suit)) >= 5
       THEN LET suit == CHOOSE x \in 1..4 : Cardinality(SuitRanks(AllCards, x)) >= 5
                top == FirstN(DescOfSet(SuitRanks(AllCards, suit)), 5)
            IN  /\ flush_score = Some(Packed(top))
                /\ \A t \in Desc5 :
                      LET score == pack_score(t, 1, 0)
                      IN  /\ (score < flush_score.val) <=> LexLess(t, top)
                          /\ (score = flush_score.val) <=> (t = top)
                          /\ (score > flush_score.val) <=> LexLess(top, t)
       ELSE flush_score = None

\* C8 witness: 7 spades A K 9 8 7 3 2 score as A K 9 8 7.
C8_SevenOfSuitTopFive ==
    /\ pc = "done"
    /\ SuitRanks(AllCards, 1) = {14, 13, 9, 8, 7, 3, 2}
    /\ flush_score = Some(Packed(<<14, 13, 9, 8, 7>>))

MaskHas(mask, r) == (mask \div (2 ^ (r - 2))) % 2 = 1

\* the highest h with ranks h-4..h all set, all in 2..14; else 5 for the
\* wheel; else None
StraightExpected(mask) ==
    LET tops == {h \in 6..14 : \A r \in (h - 4)..h : MaskHas(mask, r)}
    IN  IF tops # {} THEN Some(CHOOSE h \in tops : \A g \in tops : g <= h)
        ELSE IF \A r \in {14, 2, 3, 4, 5} : MaskHas(mask, r) THEN Some(5)
        ELSE None

\* C9: on every 13-bit rank mask, _get_best_straight_in_mask and the inline
\* copy in get_best_straight_rank return the highest top rank of five
\* consecutive set ranks, else 5 for the wheel, else None; they complete
\* without error on every mask and agree.
C9_StraightRoutine ==
    /\ in_mask_top # NotRun => in_mask_top = StraightExpected(rank_mask)
    /\ inline_top # NotRun => inline_top = StraightExpected(rank_mask)
    /\ in_mask_top # NotRun /\ inline_top # NotRun => in_mask_top = inline_top

\* the highest rank of R held at least n times among the cards cs
TopRankHeld(cs, n, R) ==
    LET held == {r \in R : CountOf(CardSet(cs), r) >= n}
    IN  CHOOSE r \in held : \A q \in held : q <= r

\* C10: whenever holdem_eval returns FULL_HOUSE the tiebreak is (t, p), t the
\* highest rank held at least 3 times and p the highest other rank held at
\* least 2 times (a second triple serves as the pair; of two pairs the
\* higher is taken).
C10_FullHouseTiebreak ==
    pc = "done" /\ result.kind = "return" /\ result.cat = FULL_HOUSE
       => LET t == TopRankHeld(AllCards, 3, 2..14)
              p == TopRankHeld(AllCards, 2, (2..14) \ {t})
          IN  result.tb = <<t, p>>

\* C10 witness: three aces, three kings and a seventh card: aces full of
\* kings.
C10_TwoTriples ==
    /\ pc = "done"
    /\ CountOf(CardSet(AllCards), 14) = 3
    /\ CountOf(CardSet(AllCards), 13) = 3
    /\ result = Return(FULL_HOUSE, <<14, 13>>)

(***************************************************************************)
(* SpecTwoPair: one call of holdem_eval on the deals of a deck with four   *)
(* paired ranks (two pairs, three pairs, and holdings with 2,3,4,5).       *)
(***************************************************************************)
TwoPairDeckSize == 13

TwoPairDeck ==
    << Card(14, 1), Card(14, 2), Card(13, 1), Card(13, 2), Card(12, 1), Card(12, 3),
       Card(9, 4), Card(9, 3), Card(7, 2), Card(4, 4), Card(2, 3), Card(3, 1),
       Card(5, 3), Card(11, 4), Card(10, 2) >>

InitTwoPair ==
    /\ \E S \in Hands(TwoPairDeckSize) :
          LET cs == Dealt(TwoPairDeck, S)
          IN  hole_cards = SubSeq(cs, 1, 2) /\ board_cards = SubSeq(cs, 3, 7)
    /\ result = NotCalled
    /\ pc = "call"
    /\ Idle

SpecTwoPair == InitTwoPair /\ [][Next]_vars

\* the ranks of the cards left of cs after two cards of rank p1 and two of
\* rank p2 are taken away
RanksLeft(cs, p1, p2) ==
    {r \in 2..14 :
        CountOf(CardSet(cs), r) - (IF r \in {p1, p2} THEN 2 ELSE 0) > 0}

\* C11: whenever holdem_eval returns TWO_PAIR the tiebreak is (p1, p2, k),
\* p1 > p2 the two highest ranks held at least twice and k the highest rank
\* of the 3 cards left without those two pairs; with three pairs k is the
\* larger of the third pair's rank and the remaining card's rank; k is never
\* 0 and never p1 or p2.
C11_TwoPairTiebreak ==
    pc = "done" /\ result.kind = "return" /\ result.cat = TWO_PAIR
       => LET p1 == TopRankHeld(AllCards, 2, 2..14)
              p2 == TopRankHeld(AllCards, 2, (2..14) \ {p1})
              left == RanksLeft(AllCards, p1, p2)
              k == CHOOSE r \in left : \A q \in left : q <= r
              third == {r \in (2..14) \ {p1, p2} : CountOf(CardSet(AllCards), r) >= 2}
              single == {r \in 2..14 : CountOf(CardSet(AllCards), r) = 1}
          IN  /\ result.tb = <<p1, p2, k>>
              /\ p1 > p2
              /\ result.tb[3] # 0 /\ result.tb[3] \notin {p1, p2}
              /\ third # {} =>
                    \E p3 \in third : \E x \in single :
                       result.tb[3] = (IF p3 > x THEN p3 ELSE x)

\* C11 witness: aces, kings and queens paired with a nine: the third pair's
\* rank is the kicker.
C11_ThirdPairKicker ==
    /\ pc = "done"
    /\ CountOf(CardSet(AllCards), 12) = 2
    /\ CountOf(CardSet(AllCards), 9) = 1
    /\ result = Return(TWO_PAIR, <<14, 13, 12>>)

====
